---- MODULE Spec2Model ----
(***************************************************************************)
(* A model of podcast_history_converter: the identifier codec (main.rs),   *)
(* the BeyondPod backend (history-token codec, populate, save over an      *)
(* archive) and the PocketCasts backend (populate, save over a store).     *)
(*                                                                         *)
(* Representation.  TLC's integers are 32 bits wide, so                    *)
(*   - a u128 is a sequence of 32 nibbles, most significant first;         *)
(*   - a u32 is a pair <<hi, lo>> of 16-bit limbs;                         *)
(*   - an i32 is an integer in -2^31 .. 2^31-1;                            *)
(*   - a String is the sequence of its bytes (ASCII codes).                *)
(***************************************************************************)
EXTENDS Integers, Sequences, FiniteSets, TLC

VARIABLES
    uuid,       \* the identifier codec's harness: [pc, v, s, r]
    codec,      \* the history-token codec's harness: [pc, feed, entries, prefix, bytes, r]
    cfg,        \* what the players' save files hold, in the abstract (never changes)
    in_player,  \* main: the cli name of the source player
    outputs,    \* main: the cli names of the destination players, in order
    bp,         \* the BeyondPod instance: [state, archive, db]
    pk,         \* the PocketCasts instance: [state, db]
    pods,       \* main: the podcasts
    mpc,        \* main: where it is, [at, i]
    files,      \* the output file of each destination player
    log,        \* the lines printed about tracks
    clock,      \* the system clock, in milliseconds
    calls       \* the calls made on the players so far: [op, on]

main_vars == <<cfg, in_player, outputs, bp, pk, pods, mpc, files, log, clock, calls>>

vars == <<uuid, codec, main_vars>>

----------------------------------------------------------------------------
(* Generic helpers on sequences *)

\* A sequence of n copies of x.
Rep(x, n) == [i \in 1..n |-> x]

\* s without its first n elements.
Drop(s, n) == SubSeq(s, n + 1, Len(s))

\* The last n elements of s.
Last(s, n) == SubSeq(s, Len(s) - n + 1, Len(s))

RECURSIVE Concat(_)
\* The concatenation of a sequence of sequences.
Concat(ss) == IF ss = <<>> THEN <<>> ELSE Head(ss) \o Concat(Tail(ss))

----------------------------------------------------------------------------
(* Integer formatting and parsing (Rust's core::fmt and core::num) *)

\* The lower-case hex digit character of a nibble, as "{:x}" prints it.
HexChar(d) == IF d < 10 THEN 48 + d ELSE 87 + d

RECURSIVE StripZeros(_)
\* The significant digits of a number: no leading zero, at least one digit.
StripZeros(ds) ==
    IF Len(ds) > 1 /\ Head(ds) = 0 THEN StripZeros(Tail(ds)) ELSE ds

\* A sequence of characters padded on the left with `fill` to `width`.
PadLeft(cs, width, fill) ==
    IF Len(cs) >= width THEN cs ELSE Rep(fill, width - Len(cs)) \o cs

\* format!("{:0width$x}", n) for an unsigned n given by its nibbles.
FormatHex(nibbles, width) ==
    LET sig == StripZeros(nibbles)
    IN  PadLeft([i \in 1..Len(sig) |-> HexChar(sig[i])], width, 48)

\* char::to_digit(16): the value of a hex digit character, or -1.
ToDigit16(c) ==
    IF c >= 48 /\ c <= 57 THEN c - 48
    ELSE IF c >= 97 /\ c <= 102 THEN c - 87
    ELSE IF c >= 65 /\ c <= 70 THEN c - 55
    ELSE -1

RECURSIVE ParseHexDigits(_, _)
\* The digit loop of u128::from_str_radix(_, 16): result = result * 16 + digit,
\* checked.  acc is the 32-nibble accumulator.
ParseHexDigits(cs, acc) ==
    IF cs = <<>> THEN [ok |-> TRUE, v |-> acc]
    ELSE IF ToDigit16(Head(cs)) < 0 THEN [ok |-> FALSE, err |-> "ParseIntError"]
    ELSE IF Head(acc) # 0 THEN [ok |-> FALSE, err |-> "ParseIntError"]
    ELSE ParseHexDigits(Tail(cs), Tail(acc) \o <<ToDigit16(Head(cs))>>)

\* u128::from_str_radix(s, 16): an empty string and a lone sign are errors, one
\* leading '+' is accepted, '-' is no digit of an unsigned type.
U128FromStrRadix16(cs) ==
    IF cs = <<>> THEN [ok |-> FALSE, err |-> "ParseIntError"]
    ELSE IF Len(cs) = 1 /\ Head(cs) \in {43, 45} THEN [ok |-> FALSE, err |-> "ParseIntError"]
    ELSE IF Head(cs) = 43 THEN ParseHexDigits(Tail(cs), Rep(0, 32))
    ELSE ParseHexDigits(cs, Rep(0, 32))

\* A small count as a u32.
U32FromNat(n) == <<(n \div 65536) % 65536, n % 65536>>

\* A u32 as a count of loop turns; one of 2^31 or more outlasts any stream.
U32ToCount(u) == IF u[1] >= 32768 THEN 2147483647 ELSE u[1] * 65536 + u[2]

\* `u as i32`: the same 32 bits read as two's complement.
U32AsI32(u) ==
    IF u[1] >= 32768 THEN (u[1] - 65536) * 65536 + u[2] ELSE u[1] * 65536 + u[2]

\* `i as u32`
I32AsU32(i) ==
    IF i < 0 THEN <<(i \div 65536) + 65536, i % 65536>> ELSE <<i \div 65536, i % 65536>>

RECURSIVE DecDigits(_)
\* The decimal digit characters of n >= 0.
DecDigits(n) ==
    IF n < 10 THEN <<48 + n>> ELSE DecDigits(n \div 10) \o <<48 + (n % 10)>>

\* i32::to_string.  The last digit of a negative number is split off before
\* the sign is dropped, because -(-2^31) is no i32.
I32ToString(i) ==
    IF i >= 0 THEN DecDigits(i)
    ELSE LET d == (10 - (i % 10)) % 10
             q == -((i + d) \div 10)
         IN  <<45>> \o (IF q = 0 THEN <<>> ELSE DecDigits(q)) \o <<48 + d>>

RECURSIVE ParseDecPos(_, _)
\* The digit loop of i32::from_str_radix(_, 10) for a non-negative number:
\* result = result * 10 + digit, checked against i32::MAX.
ParseDecPos(cs, acc) ==
    IF cs = <<>> THEN [ok |-> TRUE, v |-> acc]
    ELSE LET d == Head(cs) - 48
         IN  IF d < 0 \/ d > 9 THEN [ok |-> FALSE, err |-> "ParseIntError"]
             ELSE IF acc > (2147483647 - d) \div 10 THEN [ok |-> FALSE, err |-> "ParseIntError"]
             ELSE ParseDecPos(Tail(cs), acc * 10 + d)

RECURSIVE ParseDecNeg(_, _)
\* The same loop for a negative number: result = result * 10 - digit, checked
\* against i32::MIN.
ParseDecNeg(cs, acc) ==
    IF cs = <<>> THEN [ok |-> TRUE, v |-> acc]
    ELSE LET d == Head(cs) - 48
         IN  IF d < 0 \/ d > 9 THEN [ok |-> FALSE, err |-> "ParseIntError"]
             ELSE IF acc < ((-2147483647 - 1) + d + 9) \div 10 THEN [ok |-> FALSE, err |-> "ParseIntError"]
             ELSE ParseDecNeg(Tail(cs), acc * 10 - d)

\* i32::from_str_radix(s, 10)
I32FromStrRadix10(cs) ==
    IF cs = <<>> THEN [ok |-> FALSE, err |-> "ParseIntError"]
    ELSE IF Len(cs) = 1 /\ Head(cs) \in {43, 45} THEN [ok |-> FALSE, err |-> "ParseIntError"]
    ELSE IF Head(cs) = 43 THEN ParseDecPos(Tail(cs), 0)
    ELSE IF Head(cs) = 45 THEN ParseDecNeg(Tail(cs), 0)
    ELSE ParseDecPos(cs, 0)

----------------------------------------------------------------------------
(* UUID (main.rs) *)

\* self.0 >> bits, for bits a multiple of 4.
U128Shr(v, bits) == Rep(0, bits \div 4) \o SubSeq(v, 1, 32 - bits \div 4)

\* The fields with the fourth shifted as the third is.
UUIDFieldsShift48(v) ==
    << <<Last(U128Shr(v, 96), 8), 8>>,
       <<Last(U128Shr(v, 80), 4), 4>>,
       <<Last(U128Shr(v, 64), 4), 4>>,
       <<Last(U128Shr(v, 64), 4), 4>>,
       <<Last(v, 12), 12>> >>

\* The fields UUID::to_string prints, as (nibbles, width) pairs:
\* (self.0 >> 96) as u32, (self.0 >> 80) as u16, (self.0 >> 64) as u16,
\* (self.0 >> 48) as u16, (self.0 as u64) & 0xFFFFFFFFFFFF
UUIDFields(v) ==
    << <<Last(U128Shr(v, 96), 8), 8>>,
       <<Last(U128Shr(v, 80), 4), 4>>,
       <<Last(U128Shr(v, 64), 4), 4>>,
       <<Last(U128Shr(v, 48), 4), 4>>,
       <<Rep(0, 4) \o Last(Last(v, 16), 12), 12>> >>

\* UUID::to_string: "{:08x}-{:04x}-{:04x}-{:04x}-{:012x}"
UUIDToString(v) ==
    LET f == UUIDFields(v)
    IN  FormatHex(f[1][1], f[1][2]) \o <<45>> \o FormatHex(f[2][1], f[2][2]) \o <<45>>
        \o FormatHex(f[3][1], f[3][2]) \o <<45>> \o FormatHex(f[4][1], f[4][2]) \o <<45>>
        \o FormatHex(f[5][1], f[5][2])

\* The outcome of the guard of UUID::from_str, evaluated left to right: "ok",
\* "InvalidUUID", or "panic" when a slice bound is no character boundary (the
\* byte at a hyphen offset belongs to a multi-byte character).
RECURSIVE HyphenCheck(_, _)
HyphenCheck(s, offsets) ==
    IF offsets = <<>> THEN "ok"
    ELSE IF s[Head(offsets) + 1] >= 128 THEN "panic"
    ELSE IF s[Head(offsets) + 1] # 45 THEN "InvalidUUID"
    ELSE HyphenCheck(s, Tail(offsets))

\* UUID::from_str
UUIDFromStr(s) ==
    IF Len(s) # 36 THEN [ok |-> FALSE, err |-> "InvalidUUID"]
    ELSE LET g == HyphenCheck(s, <<8, 13, 18, 23>>)
         IN  IF g # "ok" THEN [ok |-> FALSE, err |-> g]
             ELSE U128FromStrRadix16(SubSeq(s, 1, 8) \o SubSeq(s, 10, 13)
                      \o SubSeq(s, 15, 18) \o SubSeq(s, 20, 23) \o SubSeq(s, 25, 36))

----------------------------------------------------------------------------
(* The history-token codec of BeyondPod (player/beyondpod.rs).  A history blob
   is a sequence of bytes; the model's blobs hold ASCII text only.

   Where the code binds a call's result to a name and uses it in several
   places, the model passes the result to a second operator, named after the
   first, so that the call is written once. *)

\* write_u16::<BigEndian>(n as u16)
U16Bytes(n) == <<(n % 65536) \div 256, n % 256>>

\* write_u32::<BigEndian>(u)
U32Bytes(u) == <<u[1] \div 256, u[1] % 256, u[2] \div 256, u[2] % 256>>

\* String::from_utf8 succeeds (on the ASCII text of the model's blobs).
IsUtf8(bytes) == \A i \in 1..Len(bytes) : bytes[i] < 128

\* HistoryTokenIter::next on the unread bytes: the token read, if any, and the
\* bytes left unread.  A short read has consumed the rest of the stream.
TokenNext(bytes) ==
    IF Len(bytes) < 2 THEN [some |-> FALSE, rest |-> <<>>]
    ELSE LET str_len == bytes[1] * 256 + bytes[2]
             after == Drop(bytes, 2)
         IN  IF Len(after) < str_len THEN [some |-> FALSE, rest |-> <<>>]
             ELSE LET buf == SubSeq(after, 1, str_len)
                      tail == Drop(after, str_len)
                  IN  IF ~IsUtf8(buf) THEN [some |-> FALSE, rest |-> tail]
                      ELSE IF Len(tail) < 4 THEN [some |-> FALSE, rest |-> <<>>]
                      ELSE [some |-> TRUE, str |-> buf,
                            data |-> <<tail[1] * 256 + tail[2], tail[3] * 256 + tail[4]>>,
                            rest |-> Drop(tail, 4)]

RECURSIVE SkipTokens(_, _)
\* One turn of the skipping loop, t being iter.next().
SkipToken(t, count) == IF ~t.some THEN t.rest ELSE SkipTokens(t.rest, count - 1)

\* for _ in 0..count { if let None = iter.next() { break; } }: the bytes left.
SkipTokens(bytes, count) == IF count = 0 THEN bytes ELSE SkipToken(TokenNext(bytes), count)

\* A HashMap with (k, v) inserted: a later entry replaces an earlier one.
MapInsert(m, k, v) == [x \in DOMAIN m \cup {k} |-> IF x = k THEN v ELSE m[x]]

\* HashMap::new()
EmptyMap == [x \in {} |-> <<0, 0>>]

RECURSIVE CollectTokens(_, _, _)
\* The closure of the map: k is i32::from_str_radix(track_str, 10).
CollectEntry(t, k, count, m) ==
    IF ~k.ok THEN [ok |-> FALSE, err |-> k.err]
    ELSE CollectTokens(t.rest, count - 1, MapInsert(m, I32AsU32(k.v), t.data))

\* One token taken, t being iter.next().
CollectToken(t, count, m) ==
    IF ~t.some THEN [ok |-> TRUE, v |-> m]
    ELSE CollectEntry(t, I32FromStrRadix10(t.str), count, m)

\* iter.take(count).map(|(track_str, flags)| Ok((i32::from_str_radix(..)? as u32,
\* flags))).collect(): the first entry that does not parse fails the call.
CollectTokens(bytes, count, m) ==
    IF count = 0 THEN [ok |-> TRUE, v |-> m] ELSE CollectToken(TokenNext(bytes), count, m)

RECURSIVE ScanFeedHistory(_, _)
\* The body of the while loop: id is UUID::from_str(id_str).
ScanGroup(t, id, feed) ==
    IF ~id.ok THEN [ok |-> FALSE, err |-> id.err]
    ELSE IF id.v = feed THEN CollectTokens(t.rest, U32ToCount(t.data), EmptyMap)
    ELSE ScanFeedHistory(SkipTokens(t.rest, U32ToCount(t.data)), feed)

\* while let Some((id_str, count)) = iter.next()
ScanToken(t, feed) ==
    IF ~t.some THEN [ok |-> TRUE, v |-> EmptyMap]
    ELSE ScanGroup(t, UUIDFromStr(t.str), feed)

\* get_feed_history over the history member's bytes.
ScanFeedHistory(bytes, feed) == ScanToken(TokenNext(bytes), feed)

\* write_history_token
WriteHistoryToken(string, data) == U16Bytes(Len(string)) \o string \o U32Bytes(data)

\* The key of an entry printed as the u32 it is; 2147483648 stands for every
\* key of 2^31 or more.
KeyStringUnsigned(id) ==
    IF id[1] >= 32768 THEN <<50, 49, 52, 55, 52, 56, 51, 54, 52, 56>>
    ELSE I32ToString(U32AsI32(id))

\* (id as i32).to_string()
KeyString(id) == I32ToString(U32AsI32(id))

\* write_feed_history: the bytes appended to the writer.
WriteFeedHistory(id, feed) ==
    WriteHistoryToken(UUIDToString(id), U32FromNat(Len(feed)))
        \o Concat([i \in 1..Len(feed) |-> WriteHistoryToken(KeyString(feed[i][1]), feed[i][2])])

RECURSIVE GuidHash(_, _)
\* The loop of guid_to_track_id, on 16-bit limbs.
GuidHash(bytes, acc) ==
    IF bytes = <<>> THEN acc
    ELSE LET lo == acc[2] * 31 + Head(bytes)
             hi == acc[1] * 31 + lo \div 65536
         IN  GuidHash(Tail(bytes), <<hi % 65536, lo % 65536>>)

\* guid_to_track_id: acc = acc.wrapping_mul(31).wrapping_add(b), from 0.
GuidToTrackId(guid) == GuidHash(guid, <<0, 0>>)

----------------------------------------------------------------------------
(* The BeyondPod backend (player/beyondpod.rs).

   An archive is a sequence of members [name, data].  The data of the history
   member is a sequence of bytes.  The relational engine is an external
   collaborator: the data of the store member is the store's content itself,
   [feeds, tracks, broken], where
     feeds  maps a url to [feedid, hasunread];
     tracks maps <<orgrssitemid, parentfeedid>> (both text) to
            [played, playedtime];
     broken is the set of such keys for which the track query fails with an
            error other than "no rows".
   A BeyondPod is [state, archive, db]. *)

HISTORY_FILE == "BeyondPodItemHistory.bin.autobak"

DB_FILE == "beyondpod.db.autobak"

\* The index of the first member called name, or 0.
MemberIndex(archive, name) ==
    IF \E i \in 1..Len(archive) : archive[i].name = name
    THEN CHOOSE i \in 1..Len(archive) :
            /\ archive[i].name = name
            /\ \A j \in 1..(i - 1) : archive[j].name # name
    ELSE 0

\* get_feed: the feed's id, or the error.
GetFeed(db, url) ==
    IF url \notin DOMAIN db.feeds THEN [ok |-> FALSE, err |-> "QueryReturnedNoRows"]
    ELSE UUIDFromStr(db.feeds[url].feedid)

\* The parameters the track statements bind: (track_id as i32).to_string() and
\* feed_id.to_string().
TrackKey(feed_id, track_id) == <<I32ToString(U32AsI32(track_id)), UUIDToString(feed_id)>>

\* The SELECT of get_track, its parameters bound.
QueryTrack(db, key) ==
    IF key \in db.broken THEN [ok |-> FALSE, err |-> "SqliteFailure"]
    ELSE IF key \notin DOMAIN db.tracks THEN [ok |-> FALSE, err |-> "QueryReturnedNoRows"]
    ELSE [ok |-> TRUE, played |-> db.tracks[key].played,
          playedtime |-> db.tracks[key].playedtime]

\* get_track
GetTrack(db, feed_id, track_id) == QueryTrack(db, TrackKey(feed_id, track_id))

\* The WHERE clause of update_track on the row under k.
UpdateMatchesAnyFeed(k, key) == k[1] = key[1]

UpdateMatches(k, key) == k = key

\* update_track: the store after the UPDATE.
UpdateTrack(db, feed_id, track_id, played, played_time) ==
    [db EXCEPT !.tracks =
        [k \in DOMAIN db.tracks |->
            IF UpdateMatches(k, TrackKey(feed_id, track_id))
            THEN [played |-> played, playedtime |-> played_time]
            ELSE db.tracks[k]]]

\* get_feed_history
GetFeedHistory(archive, feed) ==
    IF MemberIndex(archive, HISTORY_FILE) = 0 THEN [ok |-> FALSE, err |-> "FileNotFound"]
    ELSE ScanFeedHistory(archive[MemberIndex(archive, HISTORY_FILE)].data, feed)

\* Option<T>: None, or Some(x).
None == <<>>

Some(x) == <<x>>

\* Option::xor
OptionXor(a, b) ==
    IF a # None /\ b = None THEN a
    ELSE IF a = None /\ b # None THEN b
    ELSE None

\* Option::unwrap_or
UnwrapOr(a, default) == IF a # None THEN a[1] ELSE default

\* The `played` of populate with the store's flag taken whenever it is there.
ResolvePlayedSqlWins(sql_played, history_played) ==
    IF sql_played # None THEN sql_played[1] ELSE UnwrapOr(history_played, FALSE)

\* The `played` of populate, from sql_played and history_played.
ResolvePlayed(sql_played, history_played) ==
    IF sql_played # None /\ history_played # None
    THEN IF sql_played[1] = history_played[1] THEN sql_played[1] ELSE FALSE
    ELSE UnwrapOr(OptionXor(sql_played, history_played), FALSE)

\* The sql_progress of populate without its test of the sign.
SqlProgressAnySign(row) == IF row.ok THEN Some(row.playedtime) ELSE None

\* The sql_progress of populate.
SqlProgress(row) == IF row.ok /\ row.playedtime >= 0 THEN Some(row.playedtime) ELSE None

\* history.get(&track_id).map(|&flags| flags == 65)
HistoryPlayed(history, track_id) ==
    IF track_id \in DOMAIN history THEN Some(history[track_id] = <<0, 65>>) ELSE None

\* The track's playing_status, from played and its progress.
StatusOf(played, progress) ==
    IF played THEN "Played" ELSE IF progress > 0 THEN "Playing" ELSE "Unplayed"

\* One turn of populate's loop once both sources are read: the track
\* afterwards and the lines printed.
ReconcileTrack(track, row, history_played) ==
    LET sql_played == IF row.ok THEN Some(row.played) ELSE None
        played == ResolvePlayed(sql_played, history_played)
        progress == UnwrapOr(SqlProgress(row), 0)
    IN  [track |-> [track EXCEPT !.progress = progress,
                                 !.playing_status = StatusOf(played, progress)],
         log |-> IF sql_played # None /\ history_played # None /\ sql_played # history_played
                 THEN << [line |-> "played history mismatch", url |-> track.url,
                          sql |-> sql_played[1], history |-> history_played[1]] >>
                 ELSE <<>>]

\* One turn of populate's loop.
PopulateTrack(db, id, history, track) ==
    ReconcileTrack(track, GetTrack(db, id, GuidToTrackId(track.guid)),
                   HistoryPlayed(history, GuidToTrackId(track.guid)))

\* Ok(podcast), done[i] being the outcome of the loop's i-th turn.
PopulateDone(podcast, done) ==
    [ok |-> TRUE,
     v |-> [podcast EXCEPT !.tracks = [i \in 1..Len(podcast.tracks) |-> done[i].track]],
     log |-> Concat([i \in 1..Len(podcast.tracks) |-> done[i].log])]

\* populate from `let history = self.get_feed_history(&id)?` on.
PopulateWithHistory(self, podcast, id, history) ==
    IF ~history.ok THEN history
    ELSE PopulateDone(podcast,
            [i \in 1..Len(podcast.tracks) |->
                PopulateTrack(self.db, id, history.v, podcast.tracks[i])])

\* populate from `let (id, _unread) = self.get_feed(&podcast.url)?` on.
PopulateWithFeed(self, podcast, feed) ==
    IF ~feed.ok THEN feed
    ELSE PopulateWithHistory(self, podcast, feed.v, GetFeedHistory(self.archive, feed.v))

\* BeyondPod::populate: the podcast returned and the lines printed, or the error.
BeyondPodPopulate(self, podcast) == PopulateWithFeed(self, podcast, GetFeed(self.db, podcast.url))

\* An I/O or store failure the environment may raise during a save: none, or
\* the failure of the n-th call of one kind.
NoFault == [at |-> "none", n |-> 0]

\* if played { 65 } else { 64 }
HistoryFlags(played) == IF played THEN <<0, 65>> ELSE <<0, 64>>

\* played || is_in_db
WantsEntry(played, is_in_db) == played \/ is_in_db

\* One turn of save's inner loop once the track is looked up.  st is
\* [db, hist, entries, nupd, ops, err]; ops lists the calls made on the store.
SaveTrackRow(st, id, track, track_id, is_in_db, fault) ==
    LET played == track.playing_status = "Played"
    IN  IF is_in_db /\ fault.at = "update" /\ fault.n = st.nupd + 1
        THEN [st EXCEPT !.err = "SqliteFailure", !.ops = Append(@, "update")]
        ELSE [st EXCEPT
                !.ops = IF is_in_db THEN Append(@, "update") ELSE @,
                !.db = IF is_in_db
                       THEN UpdateTrack(st.db, id, track_id, played, track.progress)
                       ELSE st.db,
                !.nupd = IF is_in_db THEN st.nupd + 1 ELSE st.nupd,
                !.entries = IF WantsEntry(played, is_in_db)
                            THEN Append(st.entries, <<track_id, HistoryFlags(played)>>)
                            ELSE st.entries]

\* One turn of save's inner loop.
SaveTrack(st, id, track, fault) ==
    SaveTrackRow(st, id, track, GuidToTrackId(track.guid),
                 GetTrack(st.db, id, GuidToTrackId(track.guid)).ok, fault)

RECURSIVE SaveTracks(_, _, _, _)
\* for track in podcast.tracks.iter()
SaveTracks(st, id, tracks, fault) ==
    IF tracks = <<>> \/ st.err # "" THEN st
    ELSE SaveTracks(SaveTrack(st, id, Head(tracks), fault), id, Tail(tracks), fault)

\* A group written for every podcast, empty or not.
FeedGroupAlways(id, entries) == WriteFeedHistory(id, entries)

\* if history_tracks.len() > 0 { write_feed_history(..) }: the bytes appended.
FeedGroup(id, entries) == IF Len(entries) > 0 THEN WriteFeedHistory(id, entries) ELSE <<>>

RECURSIVE SavePodcasts(_, _, _)
\* The end of a turn of save's outer loop, done being the state after the
\* podcast's tracks.
SavePodcastDone(done, id, podcasts, fault) ==
    IF done.err # "" THEN done
    ELSE SavePodcasts([done EXCEPT !.hist = done.hist \o FeedGroup(id, done.entries)],
                      Tail(podcasts), fault)

\* A turn of save's outer loop from `let (id, _unread) = self.get_feed(..)?` on.
SavePodcast(st, feed, podcasts, fault) ==
    IF ~feed.ok THEN [st EXCEPT !.err = feed.err]
    ELSE SavePodcastDone(SaveTracks([st EXCEPT !.entries = <<>>], feed.v,
                                    Head(podcasts).tracks, fault),
                         feed.v, podcasts, fault)

\* for podcast in podcasts
SavePodcasts(st, podcasts, fault) ==
    IF podcasts = <<>> \/ st.err # "" THEN st
    ELSE SavePodcast(st, GetFeed(st.db, Head(podcasts).url), podcasts, fault)

\* The store's member copied from the input archive like any other.
MemberSourceStoreUnchanged(member, hist, db) ==
    IF member.name = HISTORY_FILE THEN hist ELSE member.data

\* The bytes a member of the output archive is copied from.
MemberSource(member, hist, db) ==
    IF member.name = HISTORY_FILE THEN hist
    ELSE IF member.name = DB_FILE THEN <<db>>
    ELSE member.data

\* An empty output file, and a zip written through ZipWriter: the entries
\* started, whether the copy into each completed, whether finish() ran.
EmptySink == [entries |-> <<>>, finished |-> FALSE]

\* The calls on the store after io::copy from the member called name.
CopyOps(ops, name) == IF name = DB_FILE THEN Append(ops, "read") ELSE ops

RECURSIVE CopyMembers(_, _, _, _, _, _, _)
\* The archive loop of save and zip.finish(), from member i on.
CopyMembers(archive, i, sink, ops, hist, db, fault) ==
    IF i > Len(archive)
    THEN IF fault.at = "finish" THEN [ok |-> FALSE, err |-> "Io", sink |-> sink, ops |-> ops]
         ELSE [ok |-> TRUE, sink |-> [sink EXCEPT !.finished = TRUE], ops |-> ops]
    ELSE IF fault.at = "by_index" /\ fault.n = i
    THEN [ok |-> FALSE, err |-> "Zip", sink |-> sink, ops |-> ops]
    ELSE IF fault.at = "start_file" /\ fault.n = i
    THEN [ok |-> FALSE, err |-> "Zip", sink |-> sink, ops |-> ops]
    ELSE IF fault.at = "copy" /\ fault.n = i
    THEN [ok |-> FALSE, err |-> "Io", ops |-> CopyOps(ops, archive[i].name),
          sink |-> [sink EXCEPT !.entries =
                      Append(@, [name |-> archive[i].name, data |-> <<>>, complete |-> FALSE])]]
    ELSE CopyMembers(archive, i + 1,
            [sink EXCEPT !.entries =
                Append(@, [name |-> archive[i].name,
                           data |-> MemberSource(archive[i], hist, db),
                           complete |-> TRUE])],
            CopyOps(ops, archive[i].name), hist, db, fault)

\* The same with the error of into_file() dropped.
SaveArchiveCloseIgnored(self, done, fault) ==
    IF done.err # "" THEN [ok |-> FALSE, err |-> done.err, sink |-> EmptySink, ops |-> done.ops]
    ELSE CopyMembers(self.archive, 1, EmptySink,
                     Append(done.ops, IF fault.at = "close" THEN "close failed" ELSE "close"),
                     done.hist, done.db, fault)

\* save from `let mut db_temp_file = self.db.into_file()?` on, done being the
\* state after the loop over the podcasts.
SaveArchive(self, done, fault) ==
    IF done.err # "" THEN [ok |-> FALSE, err |-> done.err, sink |-> EmptySink, ops |-> done.ops]
    ELSE IF fault.at = "close"
    THEN [ok |-> FALSE, err |-> "SqliteFailure", sink |-> EmptySink,
          ops |-> Append(done.ops, "close failed")]
    ELSE CopyMembers(self.archive, 1, EmptySink, Append(done.ops, "close"), done.hist, done.db,
                     fault)

\* BeyondPod::save: the result, what the sink holds afterwards and the calls
\* made on the store.
BeyondPodSave(self, podcasts, fault) ==
    SaveArchive(self,
                SavePodcasts([db |-> self.db, hist |-> <<>>, entries |-> <<>>, nupd |-> 0,
                              ops |-> <<>>, err |-> ""], podcasts, fault),
                fault)

----------------------------------------------------------------------------
(* The PocketCasts backend (player/pocketcasts.rs).

   A PocketCasts is [state, db], db the store's content [podcasts, episodes,
   broken]:
     podcasts maps a title to its uuid text;
     episodes maps <<podcast_id, download_url>> to [playing_status,
              playing_status_modified, played_up_to, played_up_to_modified],
              played_up_to, a REAL column, counted in tenths;
     broken   is the set of such keys for which the episode query fails with
              an error other than "no rows". *)

\* get_podcast
GetPodcast(db, title) ==
    IF title \notin DOMAIN db.podcasts THEN [ok |-> FALSE, err |-> "QueryReturnedNoRows"]
    ELSE UUIDFromStr(db.podcasts[title])

\* The SELECT of get_episode, its parameters bound.
QueryEpisode(db, key) ==
    IF key \in db.broken THEN [ok |-> FALSE, err |-> "SqliteFailure"]
    ELSE IF key \notin DOMAIN db.episodes THEN [ok |-> FALSE, err |-> "QueryReturnedNoRows"]
    ELSE [ok |-> TRUE, playing_status |-> db.episodes[key].playing_status,
          played_up_to |-> db.episodes[key].played_up_to]

\* get_episode
GetEpisode(db, podcast_id, episode_url) ==
    QueryEpisode(db, <<UUIDToString(podcast_id), episode_url>>)

\* `played_up_to_f as i32`, of a number of tenths: the fraction is dropped.
F64AsI32(tenths) == IF tenths >= 0 THEN tenths \div 10 ELSE -((-tenths) \div 10)

\* std::cmp::max
Max(a, b) == IF a >= b THEN a ELSE b

\* The match on playing_status_i with every other code taken as Played.
DecodePlayingStatusLax(code) ==
    IF code = 0 THEN [ok |-> TRUE, v |-> "Unplayed"]
    ELSE IF code = 1 THEN [ok |-> TRUE, v |-> "Playing"]
    ELSE [ok |-> TRUE, v |-> "Played"]

\* The match on playing_status_i.
DecodePlayingStatus(code) ==
    IF code = 0 THEN [ok |-> TRUE, v |-> "Unplayed"]
    ELSE IF code = 1 THEN [ok |-> TRUE, v |-> "Playing"]
    ELSE IF code = 2 THEN [ok |-> TRUE, v |-> "Played"]
    ELSE [ok |-> FALSE, err |-> "InvalidPlayingStatus"]

RECURSIVE PocketCastsPopulateTracks(_, _, _, _, _)
\* The Ok arm of the match on get_episode: status is the decoded status.
PopulateEpisode(db, id, tracks, i, lines, row, status) ==
    IF ~status.ok THEN status
    ELSE PocketCastsPopulateTracks(db, id,
            [tracks EXCEPT ![i] = [@ EXCEPT !.progress = Max(F64AsI32(row.played_up_to), 0),
                                            !.playing_status = status.v]],
            i + 1, lines)

\* match self.get_episode(&id, &track.url)
PopulateEpisodeMatch(db, id, tracks, i, lines, row) ==
    IF row.ok
    THEN PopulateEpisode(db, id, tracks, i, lines, row, DecodePlayingStatus(row.playing_status))
    ELSE IF row.err = "QueryReturnedNoRows"
    THEN PocketCastsPopulateTracks(db, id, tracks, i + 1,
            Append(lines, [line |-> "Track not found", url |-> tracks[i].url]))
    ELSE [ok |-> FALSE, err |-> row.err]

\* The loop of populate from track i on: tracks and lines are those so far.
PocketCastsPopulateTracks(db, id, tracks, i, lines) ==
    IF i > Len(tracks) THEN [ok |-> TRUE, tracks |-> tracks, log |-> lines]
    ELSE PopulateEpisodeMatch(db, id, tracks, i, lines, GetEpisode(db, id, tracks[i].url))

\* Ok(podcast), done being the outcome of the loop.
PocketCastsPopulateDone(podcast, done) ==
    IF ~done.ok THEN done
    ELSE [ok |-> TRUE, v |-> [podcast EXCEPT !.tracks = done.tracks], log |-> done.log]

\* populate from `let id = self.get_podcast(&podcast.title)?` on.
PocketCastsPopulateWithId(self, podcast, id) ==
    IF ~id.ok THEN id
    ELSE PocketCastsPopulateDone(podcast,
            PocketCastsPopulateTracks(self.db, id.v, podcast.tracks, 1, <<>>))

\* PocketCasts::populate
PocketCastsPopulate(self, podcast) ==
    PocketCastsPopulateWithId(self, podcast, GetPodcast(self.db, podcast.title))

\* A value bound to a column, as the column stores it.
Stored(field, value) == IF field = "played_up_to" THEN value * 10 ELSE value

\* The name of a field's stamp.
Modified(field) ==
    IF field = "played_up_to" THEN "played_up_to_modified" ELSE "playing_status_modified"

\* The WHERE clause of update_episode_part without `field <> :value`.
PartMatchesAnyValue(row, k, key, field, value) == k = key

\* The WHERE clause of update_episode_part on the row under k.
PartMatches(row, k, key, field, value) == k = key /\ row[field] # Stored(field, value)

\* update_episode_part: UPDATE episodes SET field = :value, field_modified =
\* :time WHERE podcast_id = .. AND download_url = .. AND field <> :value
UpdateEpisodePart(db, podcast_id, episode_url, field, value, time) ==
    [db EXCEPT !.episodes =
        [k \in DOMAIN db.episodes |->
            IF PartMatches(db.episodes[k], k, <<UUIDToString(podcast_id), episode_url>>,
                           field, value)
            THEN [db.episodes[k] EXCEPT ![field] = Stored(field, value),
                                        ![Modified(field)] = time]
            ELSE db.episodes[k]]]

\* update_episode
UpdateEpisode(db, podcast_id, episode_url, played_up_to, playing_status, time) ==
    UpdateEpisodePart(
        UpdateEpisodePart(db, podcast_id, episode_url, "played_up_to", played_up_to, time),
        podcast_id, episode_url, "playing_status", playing_status, time)

\* The match on track.playing_status in save.
EncodePlayingStatus(status) ==
    IF status = "Unplayed" THEN 0 ELSE IF status = "Playing" THEN 1 ELSE 2

\* The time save stamps the nupd-th track's updates with: `now`, read from the
\* clock once, before the loop.
StampTime(now, nupd) == now

RECURSIVE PocketCastsSaveTracks(_, _, _, _, _)
\* The inner loop of save.  st is [db, nupd, ops, err].
PocketCastsSaveTracks(st, id, tracks, now, fault) ==
    IF tracks = <<>> \/ st.err # "" THEN st
    ELSE IF fault.at = "update" /\ fault.n = st.nupd + 1
    THEN [st EXCEPT !.err = "SqliteFailure", !.ops = Append(@, "update")]
    ELSE PocketCastsSaveTracks(
            [st EXCEPT
                !.ops = Append(@, "update"),
                !.db = UpdateEpisode(st.db, id, Head(tracks).url, Head(tracks).progress,
                                     EncodePlayingStatus(Head(tracks).playing_status),
                                     StampTime(now, st.nupd + 1)),
                !.nupd = st.nupd + 1],
            id, Tail(tracks), now, fault)

RECURSIVE PocketCastsSavePodcasts(_, _, _, _)
\* A turn of save's outer loop from `let id = self.get_podcast(..)?` on.
PocketCastsSavePodcast(st, id, podcasts, now, fault) ==
    IF ~id.ok THEN [st EXCEPT !.err = id.err]
    ELSE PocketCastsSavePodcasts(
            PocketCastsSaveTracks(st, id.v, Head(podcasts).tracks, now, fault),
            Tail(podcasts), now, fault)

\* for podcast in podcasts
PocketCastsSavePodcasts(st, podcasts, now, fault) ==
    IF podcasts = <<>> \/ st.err # "" THEN st
    ELSE PocketCastsSavePodcast(st, GetPodcast(st.db, Head(podcasts).title), podcasts, now,
                                fault)

\* An empty output file, and one the store's bytes are copied to.
EmptyFile == [written |-> FALSE, data |-> <<>>, complete |-> FALSE]

\* save from `let mut temp_file = self.db.into_file()?` on, done being the
\* state after the loop over the podcasts.
PocketCastsSaveFile(done, fault) ==
    IF done.err # ""
    THEN [ok |-> FALSE, err |-> done.err, sink |-> EmptyFile, nupd |-> done.nupd,
          ops |-> done.ops]
    ELSE IF fault.at = "close"
    THEN [ok |-> FALSE, err |-> "SqliteFailure", sink |-> EmptyFile, nupd |-> done.nupd,
          ops |-> Append(done.ops, "close failed")]
    ELSE IF fault.at = "copy"
    THEN [ok |-> FALSE, err |-> "Io", nupd |-> done.nupd,
          ops |-> done.ops \o <<"close", "read">>,
          sink |-> [written |-> TRUE, data |-> <<>>, complete |-> FALSE]]
    ELSE [ok |-> TRUE, nupd |-> done.nupd, ops |-> done.ops \o <<"close", "read">>,
          sink |-> [written |-> TRUE, data |-> <<done.db>>, complete |-> TRUE]]

\* PocketCasts::save: the result, what the sink holds afterwards, and the
\* number of tracks visited.
PocketCastsSave(self, podcasts, now, fault) ==
    PocketCastsSaveFile(
        PocketCastsSavePodcasts([db |-> self.db, nupd |-> 0, ops |-> <<>>, err |-> ""], podcasts,
                                now, fault),
        fault)

----------------------------------------------------------------------------
(* main (main.rs): the podcasts are populated from the source player, one
   call to populate each, then saved to each destination player. *)

\* player.populate(pod) on the source player.
PlayerPopulate(podcast) ==
    IF in_player = "beyondpod" THEN BeyondPodPopulate(bp, podcast)
    ELSE PocketCastsPopulate(pk, podcast)

\* Where main goes after the populate loop: the first output, if any.
AfterPopulate == IF outputs = <<>> THEN [at |-> "done", i |-> 0] ELSE [at |-> "save", i |-> 1]

\* The effect of one populate call that returned r.
PopulateReturned(r) ==
    IF r.ok
    THEN /\ pods' = [pods EXCEPT ![mpc.i] = r.v]
         /\ log' = log \o r.log
         /\ mpc' = IF mpc.i < Len(pods) THEN [at |-> "populate", i |-> mpc.i + 1]
                   ELSE AfterPopulate
    ELSE /\ mpc' = [at |-> "failed", stage |-> "populate", i |-> mpc.i, err |-> r.err]
         /\ UNCHANGED <<pods, log>>

\* One turn of the iterator in populate(): player.populate(pod)?
MainPopulate ==
    /\ mpc.at = "populate"
    /\ PopulateReturned(PlayerPopulate(pods[mpc.i]))
    /\ calls' = Append(calls, [op |-> "populate", on |-> in_player])
    /\ UNCHANGED <<uuid, codec, cfg, in_player, outputs, bp, pk, files, clock>>

\* The failures the environment may raise during BeyondPod::save.
BeyondPodFaults ==
    {NoFault, [at |-> "update", n |-> 1], [at |-> "close", n |-> 0], [at |-> "finish", n |-> 0]}
    \cup {[at |-> a, n |-> i] : a \in {"by_index", "start_file", "copy"},
                                i \in 1..Len(bp.archive)}

\* The failures the environment may raise during PocketCasts::save.
PocketCastsFaults ==
    {NoFault, [at |-> "update", n |-> 1], [at |-> "close", n |-> 0], [at |-> "copy", n |-> 0]}

\* Where main goes after a save that returned r.
AfterSave(r) ==
    IF ~r.ok THEN [at |-> "failed", stage |-> "save", i |-> mpc.i, err |-> r.err]
    ELSE IF mpc.i < Len(outputs) THEN [at |-> "save", i |-> mpc.i + 1]
    ELSE [at |-> "done", i |-> 0]

\* The calls of a save on player: save itself, then those it made on the store.
SaveCalls(player, ops) ==
    << [op |-> "save", on |-> player] >> \o [i \in 1..Len(ops) |-> [op |-> ops[i], on |-> player]]

\* The effect of BeyondPod's save that returned r.
SavedBeyondPod(r) ==
    /\ files' = [files EXCEPT !.beyondpod = r.sink]
    /\ mpc' = AfterSave(r)
    /\ calls' = calls \o SaveCalls("beyondpod", r.ops)

\* One turn of the output loop for BeyondPod: the player is removed from the
\* map, the output file is opened (created, truncated) and p.save(..)? runs.
MainSaveBeyondPod ==
    /\ mpc.at = "save"
    /\ outputs[mpc.i] = "beyondpod"
    /\ \E fault \in BeyondPodFaults : SavedBeyondPod(BeyondPodSave(bp, pods, fault))
    /\ bp' = [state |-> "saved"]
    /\ UNCHANGED <<uuid, codec, cfg, in_player, outputs, pk, pods, log, clock>>

\* The effect of PocketCasts' save that returned r.
SavedPocketCasts(r) ==
    /\ files' = [files EXCEPT !.pocketcasts = r.sink]
    /\ mpc' = AfterSave(r)
    /\ clock' = clock + r.nupd + 1
    /\ calls' = calls \o SaveCalls("pocketcasts", r.ops)

\* The same turn for PocketCasts.
MainSavePocketCasts ==
    /\ mpc.at = "save"
    /\ outputs[mpc.i] = "pocketcasts"
    /\ \E fault \in PocketCastsFaults : SavedPocketCasts(PocketCastsSave(pk, pods, clock, fault))
    /\ pk' = [state |-> "saved"]
    /\ UNCHANGED <<uuid, codec, cfg, in_player, outputs, bp, pods, log>>

----------------------------------------------------------------------------
(* The parts of the state a specification does not use. *)

CodecIdle ==
    [pc |-> "off", feed |-> <<>>, entries |-> <<>>, prefix |-> <<>>, bytes |-> <<>>,
     r |-> [ok |-> FALSE, err |-> "none"]]

\* main is not running.
MainIdle ==
    /\ cfg = <<>>
    /\ in_player = ""
    /\ outputs = <<>>
    /\ bp = [state |-> "none"]
    /\ pk = [state |-> "none"]
    /\ pods = <<>>
    /\ mpc = [at |-> "off", i |-> 0]
    /\ files = <<>>
    /\ log = <<>>
    /\ clock = 0
    /\ calls = <<>>

UuidIdle == [pc |-> "off", v |-> <<>>, s |-> <<>>, r |-> [ok |-> FALSE, err |-> "none"]]

----------------------------------------------------------------------------
(* The inputs of main. *)

\* The largest playedtime a row of BeyondPod's tracks table holds.
MaxPlayedTime == 1

\* The members of BeyondPod's archive besides the history and the store.
ExtraMembers == 1

\* The largest status code a row of PocketCasts' episodes table holds.
MaxStatusCode == 3

\* The guid and url of the three tracks: two of the first feed, one of the
\* second.  Track 2's key is at least 2^31; tracks 1 and 3 share a guid.
TrackGuid(t) ==
    IF t = 2 THEN <<103, 117, 105, 100, 45, 48, 48, 48, 50>> ELSE <<97>>

TrackUrl(t) ==
    IF t = 1 THEN "http://a.example/1.mp3"
    ELSE IF t = 2 THEN "http://a.example/2.mp3"
    ELSE "http://b.example/1.mp3"

FeedOf(t) == IF t = 3 THEN 2 ELSE 1

FeedUrl(f) ==
    IF f = 1 THEN "http://a.example/feed"
    ELSE IF f = 2 THEN "http://b.example/feed"
    ELSE "http://c.example/feed"

FeedTitle(f) == IF f = 1 THEN "A" ELSE IF f = 2 THEN "B" ELSE "C"

\* The podcasts from_opml returns: every track Unplayed, progress 0.
NewTrack(t) ==
    [guid |-> TrackGuid(t), url |-> TrackUrl(t), progress |-> 0, playing_status |-> "Unplayed"]

OpmlPodcasts ==
    << [url |-> FeedUrl(1), title |-> FeedTitle(1), tracks |-> <<NewTrack(1), NewTrack(2)>>],
       [url |-> FeedUrl(2), title |-> FeedTitle(2), tracks |-> <<NewTrack(3)>>] >>

\* The text of the tracks' keys in BeyondPod's store and history: "97" and
\* "-2129279802".
KeyText(t) ==
    IF t = 2 THEN <<45, 50, 49, 50, 57, 50, 55, 57, 56, 48, 50>> ELSE <<57, 55>>

\* The text of the feeds' ids in BeyondPod's store and history; feed 3 is a
\* feed of the save file that the OPML file does not list.
\*   "0a1b2c3d-4e5f-6071-8293-a4b5c6d7e8f9"
\*   "fedcba98-7654-3210-0000-00000000000f"
\*   "ffffffff-ffff-ffff-ffff-ffffffffffff"
FeedText(f) ==
    IF f = 1 THEN <<48, 97, 49, 98, 50, 99, 51, 100, 45, 52, 101, 53, 102, 45, 54, 48, 55,
                    49, 45, 56, 50, 57, 51, 45, 97, 52, 98, 53, 99, 54, 100, 55, 101, 56,
                    102, 57>>
    ELSE IF f = 2 THEN <<102, 101, 100, 99, 98, 97, 57, 56, 45, 55, 54, 53, 52, 45, 51, 50,
                         49, 48, 45, 48, 48, 48, 48, 45, 48, 48, 48, 48, 48, 48, 48, 48, 48,
                         48, 48, 102>>
    ELSE <<102, 102, 102, 102, 102, 102, 102, 102, 45, 102, 102, 102, 102, 45, 102, 102,
           102, 102, 45, 102, 102, 102, 102, 45, 102, 102, 102, 102, 102, 102, 102, 102,
           102, 102, 102, 102>>

\* The text of the podcasts' uuids in PocketCasts' store.
\*   "00000000-0000-0000-0000-000000000001"
\*   "9e107d9d-372b-b682-6bd8-1d3542a419d6"
PodcastText(f) ==
    IF f = 1 THEN <<48, 48, 48, 48, 48, 48, 48, 48, 45, 48, 48, 48, 48, 45, 48, 48, 48, 48,
                    45, 48, 48, 48, 48, 45, 48, 48, 48, 48, 48, 48, 48, 48, 48, 48, 48, 49>>
    ELSE IF f = 2 THEN <<57, 101, 49, 48, 55, 100, 57, 100, 45, 51, 55, 50, 98, 45, 98, 54,
                         56, 50, 45, 54, 98, 100, 56, 45, 49, 100, 51, 53, 52, 50, 97, 52,
                         49, 57, 100, 54>>
    ELSE FeedText(3)

\* A token of the history file whose data word is below 256.
InputToken(str, n) == <<0, Len(str)>> \o str \o <<0, 0, 0, n>>

\* What BeyondPod's save file holds about a track: no row, a row, or a row
\* the query fails on, and the track's flag word in the history (-1: none).
ATrack(db, played, playedtime, h) ==
    [db |-> db, played |-> played, playedtime |-> playedtime, h |-> h]

\* The history group of feed f: the entries of its tracks, last track first.
InputGroup(a, f) ==
    LET ts == {t \in 1..3 : FeedOf(t) = f /\ a.tracks[t].h >= 0}
        entry(t) == IF t \in ts THEN InputToken(KeyText(t), a.tracks[t].h) ELSE <<>>
    IN  IF ts = {} THEN <<>>
        ELSE InputToken(FeedText(f), Cardinality(ts)) \o entry(3) \o entry(2) \o entry(1)

\* The history file: feed 3's group (if the file has one), feed 2's, feed 1's.
InputHistory(a) ==
    (IF a.stale THEN InputToken(FeedText(3), 1) \o InputToken(KeyText(1), 65) ELSE <<>>)
        \o InputGroup(a, 2) \o InputGroup(a, 1)

\* The key of track t's row in BeyondPod's tracks table.
RowKey(t) == <<KeyText(t), FeedText(FeedOf(t))>>

\* A row of feed 3 under the key of track 1.
StaleRowKey == <<KeyText(1), FeedText(3)>>

\* BeyondPod's store.
InputStore(a) ==
    [feeds |-> [u \in {FeedUrl(f) : f \in {f \in 1..3 : f # 2 \/ a.feed2}} |->
                  [feedid |-> FeedText(CHOOSE f \in 1..3 : FeedUrl(f) = u), hasunread |-> 0]],
     tracks |-> [k \in {RowKey(t) : t \in {t \in 1..3 : a.tracks[t].db = "row"}}
                       \cup {StaleRowKey} |->
                  IF k = StaleRowKey THEN [played |-> FALSE, playedtime |-> 0]
                  ELSE LET t == CHOOSE t \in 1..3 : RowKey(t) = k
                       IN  [played |-> a.tracks[t].played,
                            playedtime |-> a.tracks[t].playedtime]],
     broken |-> {RowKey(t) : t \in {t \in 1..3 : a.tracks[t].db = "broken"}}]

\* BeyondPod's archive: the history, other members, the store.
InputArchive(a) ==
    << [name |-> HISTORY_FILE, data |-> InputHistory(a)] >>
    \o [i \in 1..ExtraMembers |->
          [name |-> IF i = 1 THEN "cover.png" ELSE "extra", data |-> <<137, 80, 78, 71, i>>]]
    \o << [name |-> DB_FILE, data |-> <<InputStore(a)>>] >>

\* BeyondPod::new
NewBeyondPod(archive) ==
    [state |-> "created", archive |-> archive,
     db |-> archive[MemberIndex(archive, DB_FILE)].data[1]]

\* What PocketCasts' save file holds about an episode.
BEpisode(db, playing_status, played_up_to) ==
    [db |-> db, playing_status |-> playing_status, played_up_to |-> played_up_to]

EpisodeKey(t) == <<PodcastText(FeedOf(t)), TrackUrl(t)>>

\* A row of another podcast under the url of track 1.
StaleEpisodeKey == <<PodcastText(3), TrackUrl(1)>>

\* PocketCasts' store; every stamp is 5.
InputPodcasts(b) ==
    [podcasts |-> [title \in {FeedTitle(f) : f \in {f \in 1..2 : f # 2 \/ b.pod2}} |->
                     PodcastText(CHOOSE f \in 1..2 : FeedTitle(f) = title)],
     episodes |-> [k \in {EpisodeKey(t) : t \in {t \in 1..3 : b.episodes[t].db = "row"}}
                         \cup {StaleEpisodeKey} |->
                     IF k = StaleEpisodeKey
                     THEN [playing_status |-> 0, playing_status_modified |-> 5,
                           played_up_to |-> 0, played_up_to_modified |-> 5]
                     ELSE LET t == CHOOSE t \in 1..3 : EpisodeKey(t) = k
                          IN  [playing_status |-> b.episodes[t].playing_status,
                               playing_status_modified |-> 5,
                               played_up_to |-> b.episodes[t].played_up_to,
                               played_up_to_modified |-> 5]],
     broken |-> {EpisodeKey(t) : t \in {t \in 1..3 : b.episodes[t].db = "broken"}}]

\* PocketCasts::new
NewPocketCasts(db) == [state |-> "created", db |-> db]

\* main's state once the players are created and the OPML file is read.
InitMain(in, outs, a, b) ==
    /\ uuid = UuidIdle
    /\ codec = CodecIdle
    /\ cfg = [a |-> a, b |-> b]
    /\ in_player = in
    /\ outputs = outs
    /\ bp = IF a.used THEN NewBeyondPod(InputArchive(a)) ELSE [state |-> "none"]
    /\ pk = IF b.used THEN NewPocketCasts(InputPodcasts(b)) ELSE [state |-> "none"]
    /\ pods = OpmlPodcasts
    /\ mpc = [at |-> "populate", i |-> 1]
    /\ files = [beyondpod |-> EmptySink, pocketcasts |-> EmptyFile]
    /\ log = <<>>
    /\ clock = 1000
    /\ calls = (IF a.used THEN << [op |-> "new", on |-> "beyondpod"] >> ELSE <<>>)
                  \o (IF b.used THEN << [op |-> "new", on |-> "pocketcasts"] >> ELSE <<>>)

\* Every state of a track in BeyondPod's save file.
ATracksAll ==
    {ATrack(db, FALSE, 0, h) : db \in {"norow", "broken"}, h \in {-1, 64, 65}}
    \cup {ATrack("row", p, t, h) : p \in BOOLEAN, t \in -1..MaxPlayedTime, h \in {-1, 64, 65}}

\* A BeyondPod save file that is not given on the command line.
AUnused == [used |-> FALSE]

\* A PocketCasts save file that is not given on the command line.
BUnused == [used |-> FALSE]

\* BeyondPod save files converted to BeyondPod.
AFilesFull ==
    { [used |-> TRUE, tracks |-> <<t1, t2, f3[2]>>, feed2 |-> f3[1], stale |-> stale] :
        t1 \in ATracksAll,
        t2 \in {ATrack("norow", FALSE, 0, -1), ATrack("norow", FALSE, 0, 65),
                ATrack("row", TRUE, 0, 64), ATrack("broken", FALSE, 0, 65)},
        f3 \in {<<TRUE, ATrack("row", FALSE, 1, -1)>>, <<TRUE, ATrack("norow", FALSE, 0, -1)>>,
                <<TRUE, ATrack("norow", FALSE, 0, 64)>>,
                <<FALSE, ATrack("norow", FALSE, 0, 64)>>},
        stale \in BOOLEAN }

\* BeyondPod save files PocketCasts is converted to.
AFilesTarget ==
    { [used |-> TRUE, tracks |-> <<t1, t2, ATrack("row", FALSE, 1, -1)>>, feed2 |-> feed2,
       stale |-> TRUE] :
        t1 \in {ATrack("norow", FALSE, 0, -1), ATrack("broken", FALSE, 0, -1),
                ATrack("row", FALSE, 0, -1), ATrack("row", TRUE, 1, 65)},
        t2 \in {ATrack("norow", FALSE, 0, -1), ATrack("row", TRUE, 0, 64)},
        feed2 \in BOOLEAN }

\* BeyondPod save files converted to PocketCasts.
AFilesSource ==
    { [used |-> TRUE, tracks |-> <<t1, t2, ATrack("row", FALSE, 1, -1)>>, feed2 |-> TRUE,
       stale |-> TRUE] :
        t1 \in {ATrack("norow", FALSE, 0, -1), ATrack("row", TRUE, 1, 65),
                ATrack("row", FALSE, 1, -1), ATrack("row", FALSE, 0, 64)},
        t2 \in {ATrack("norow", FALSE, 0, -1), ATrack("norow", FALSE, 0, 65)} }

\* PocketCasts save files converted to BeyondPod.
BFilesSource ==
    { [used |-> TRUE, episodes |-> <<e1, e2, BEpisode("row", 1, 30)>>, pod2 |-> TRUE] :
        e1 \in {BEpisode("row", s, u) : s \in 0..2, u \in {0, 79}},
        e2 \in {BEpisode("norow", 0, 0), BEpisode("row", 2, 0)} }

\* PocketCasts save files converted to PocketCasts: the first episode has no
\* row, a row the query fails on, or a row with any status code from -1 to
\* MaxStatusCode and a position below, at or above zero.
BFilesFull ==
    { [used |-> TRUE, episodes |-> <<e1, e2, BEpisode("row", 1, 30)>>, pod2 |-> pod2] :
        e1 \in {BEpisode("norow", 0, 0), BEpisode("broken", 0, 0)}
               \cup {BEpisode("row", s, u) : s \in -1..MaxStatusCode, u \in {-15, 0, 79}},
        e2 \in {BEpisode("norow", 0, 0), BEpisode("row", 2, 0), BEpisode("row", 1, 30),
                BEpisode("row", MaxStatusCode, 0)},
        pod2 \in BOOLEAN }

\* PocketCasts save files BeyondPod is converted to.
BFilesTarget ==
    { [used |-> TRUE, episodes |-> <<e1, e2, BEpisode("row", 1, 30)>>, pod2 |-> pod2] :
        e1 \in {BEpisode("norow", 0, 0), BEpisode("row", 0, 0), BEpisode("row", 2, 10),
                BEpisode("row", 1, 10)},
        e2 \in {BEpisode("norow", 0, 0), BEpisode("row", 2, 0)},
        pod2 \in BOOLEAN }

\* main with --out-beyondpod, from either player.
InitA ==
    \/ \E a \in AFilesFull : InitMain("beyondpod", <<"beyondpod">>, a, BUnused)
    \/ \E a \in AFilesTarget, b \in BFilesSource :
          InitMain("pocketcasts", <<"beyondpod">>, a, b)

\* main with --out-pocketcasts, from either player.
InitB ==
    \/ \E b \in BFilesFull : InitMain("pocketcasts", <<"pocketcasts">>, AUnused, b)
    \/ \E a \in AFilesSource, b \in BFilesTarget :
          InitMain("beyondpod", <<"pocketcasts">>, a, b)

\* main with both outputs: they are saved in the order of players_args.
InitAB ==
    \E in \in {"beyondpod", "pocketcasts"}, a \in AFilesSource :
        \E b \in {b \in BFilesTarget : b.pod2 /\ b.episodes[2].db = "row"} :
            InitMain(in, <<"beyondpod", "pocketcasts">>, a, b)

InitAll == InitA \/ InitB \/ InitAB

NextMain == MainPopulate \/ MainSaveBeyondPod \/ MainSavePocketCasts

SpecMain == InitAll /\ [][NextMain]_vars

----------------------------------------------------------------------------
(* The identifier codec's harness: a value is encoded, then decoded. *)

\* The number of nibble patterns a field of an input identifier is drawn from.
UuidPatterns == 4

\* The k-th pattern of n nibbles: zeros, all f, a low one, then a mix of digits.
NibblePattern(k, n) ==
    [i \in 1..n |->
        CASE k = 0 -> 0
          [] k = 1 -> 15
          [] k = 2 -> IF i = n THEN 1 ELSE 0
          [] OTHER -> (7 * k + (2 * k + 1) * i) % 16]

UuidInputs ==
    { NibblePattern(a, 8) \o NibblePattern(b, 4) \o NibblePattern(c, 4)
        \o NibblePattern(d, 4) \o NibblePattern(e, 12) :
        a \in 0..(UuidPatterns - 1), b \in 0..(UuidPatterns - 1),
        c \in 0..(UuidPatterns - 1), d \in 0..(UuidPatterns - 1),
        e \in 0..(UuidPatterns - 1) }

InitUuid ==
    /\ codec = CodecIdle
    /\ MainIdle
    /\ \E v \in UuidInputs :
        uuid = [pc |-> "start", v |-> v, s |-> <<>>, r |-> [ok |-> FALSE, err |-> "none"]]

UuidEncode ==
    /\ UNCHANGED <<codec, main_vars>>
    /\ uuid.pc = "start"
    /\ uuid' = [uuid EXCEPT !.pc = "encoded", !.s = UUIDToString(uuid.v)]

UuidDecode ==
    /\ UNCHANGED <<codec, main_vars>>
    /\ uuid.pc = "encoded"
    /\ uuid' = [uuid EXCEPT !.pc = "decoded", !.r = UUIDFromStr(uuid.s)]

NextUuid == UuidEncode \/ UuidDecode

SpecUuid == InitUuid /\ [][NextUuid]_vars

----------------------------------------------------------------------------
(* The identifier decoder's harness: UUID::from_str is given a text that a
   store's feedid or uuid column, or a header token of the history, may hold. *)

\* The characters put in place of one of a well-formed text's: 'g', '+', '-',
\* 'A', ' ', and the two bytes of an e with an acute accent.
ParseChars == {<<103>>, <<43>>, <<45>>, <<65>>, <<32>>, <<195, 169>>}

\* s with the bytes from offset i on overwritten by cs.
Overwrite(s, i, cs) ==
    [j \in 1..Len(s) |-> IF j > i /\ j <= i + Len(cs) THEN cs[j - i] ELSE s[j]]

\* Well-formed texts, those with one place overwritten, and texts that are
\* too short or too long.
ParseInputs ==
    {FeedText(1), FeedText(2), FeedText(3)}
    \cup {Overwrite(FeedText(1), i, cs) : i \in 0..34, cs \in ParseChars}
    \cup {Overwrite(FeedText(1), 35, cs) : cs \in {cs \in ParseChars : Len(cs) = 1}}
    \cup {<<>>, SubSeq(FeedText(1), 1, 35), FeedText(1) \o <<48>>, SubSeq(FeedText(1), 1, 32)}

InitParse ==
    /\ codec = CodecIdle
    /\ MainIdle
    /\ \E s \in ParseInputs :
        uuid = [pc |-> "text", v |-> <<>>, s |-> s, r |-> [ok |-> FALSE, err |-> "none"]]

UuidParse ==
    /\ UNCHANGED <<codec, main_vars>>
    /\ uuid.pc = "text"
    /\ uuid' = [uuid EXCEPT !.pc = "parsed", !.r = UUIDFromStr(uuid.s)]

NextParse == UuidParse

SpecParse == InitParse /\ [][NextParse]_vars

----------------------------------------------------------------------------
(* The history-token codec's harness: groups of other feeds and then one
   feed's group are written to a stream, and the feed is looked up in it. *)

\* The longest list of entries written for the feed looked up.
MaxEntries == 2

\* The most groups of other feeds written before it.
MaxPrefixGroups == 2

\* Track keys at both ends of the u32 range and on both sides of 2^31.
CodecKeys == {<<0, 0>>, <<0, 97>>, <<32767, 65535>>, <<32768, 0>>, <<65535, 65535>>}

CodecFlags == {<<0, 64>>, <<0, 65>>, <<65535, 65534>>}

CodecEntry == CodecKeys \X CodecFlags

\* The non-empty lists of at most MaxEntries entries with distinct keys.
CodecEntryLists ==
    UNION { { es \in [1..n -> CodecEntry] :
                \A i, j \in 1..n : i # j => es[i][1] # es[j][1] } : n \in 1..MaxEntries }

CodecFeeds == {NibblePattern(0, 32), NibblePattern(3, 32)}

\* The i-th group of another feed: i % 3 entries, under keys the looked-up
\* feed may use too.
OtherGroup(i) ==
    [id |-> NibblePattern(3 + i, 32),
     feed |-> [j \in 1..(i % 3) |->
                 <<IF j = 1 THEN <<0, 97>> ELSE <<32768, 0>>, <<0, 64 + (j % 2)>> >>]]

InitCodec ==
    /\ uuid = UuidIdle
    /\ MainIdle
    /\ \E feed \in CodecFeeds, entries \in CodecEntryLists, n \in 0..MaxPrefixGroups :
          codec = [pc |-> "start", feed |-> feed, entries |-> entries,
                   prefix |-> [i \in 1..n |-> OtherGroup(i)], bytes |-> <<>>,
                   r |-> [ok |-> FALSE, err |-> "none"]]

\* The writes of save's loop: one write_feed_history call per group.
CodecWrite ==
    /\ codec.pc = "start"
    /\ codec' = [codec EXCEPT
          !.pc = "written",
          !.bytes = Concat([i \in 1..Len(codec.prefix) |->
                              WriteFeedHistory(codec.prefix[i].id, codec.prefix[i].feed)])
                    \o WriteFeedHistory(codec.feed, codec.entries)]
    /\ UNCHANGED <<uuid, main_vars>>

CodecRead ==
    /\ codec.pc = "written"
    /\ codec' = [codec EXCEPT !.pc = "read", !.r = ScanFeedHistory(codec.bytes, codec.feed)]
    /\ UNCHANGED <<uuid, main_vars>>

NextCodec == CodecWrite \/ CodecRead

SpecCodec == InitCodec /\ [][NextCodec]_vars

----------------------------------------------------------------------------
(* What the claims about main's runs speak of.  The save files are described
   by cfg, in the texts they hold; none of the definitions below goes through
   the program's own conversions. *)

\* The place of track t in its podcast, and the track itself as main holds it.
TrackPos(t) == IF t = 2 THEN 2 ELSE 1

TrackAt(t) == pods[FeedOf(t)].tracks[TrackPos(t)]

\* populate has returned podcast p.
PodcastPopulated(p) ==
    \/ mpc.at = "populate" /\ mpc.i > p
    \/ mpc.at \in {"save", "done"}
    \/ mpc.at = "failed" /\ (mpc.stage = "save" \/ mpc.i > p)

\* The relational flag R and the history flag H of track t in BeyondPod's
\* save file.
RelFlag(t) ==
    IF cfg.a.tracks[t].db # "row" THEN "absent"
    ELSE IF cfg.a.tracks[t].played THEN "true" ELSE "false"

HistFlag(t) ==
    IF cfg.a.tracks[t].h = -1 THEN "absent"
    ELSE IF cfg.a.tracks[t].h = 65 THEN "true" ELSE "false"

\* The reconciliation table.
TablePlayed(t) ==
    <<RelFlag(t), HistFlag(t)>> \in {<<"true", "true">>, <<"true", "absent">>, <<"absent", "true">>}

TableMismatch(t) ==
    <<RelFlag(t), HistFlag(t)>> \in {<<"true", "false">>, <<"false", "true">>}

(* C1: in BeyondPod's populate, a track comes out Played exactly when (R, H) is
   (true, true), (true, absent) or (absent, true), R being the played flag of
   the track's row (absent without a row) and H whether the track's history
   flag word is 65 (absent without an entry); a mismatch line with the track's
   url and both values is printed exactly when both are present and differ. *)
C1_Reconciliation ==
    \A t \in 1..3 :
        (in_player = "beyondpod" /\ PodcastPopulated(FeedOf(t))) =>
            /\ (TrackAt(t).playing_status = "Played") <=> TablePlayed(t)
            /\ TableMismatch(t) <=>
                  \E i \in 1..Len(log) :
                      log[i] = [line |-> "played history mismatch", url |-> TrackUrl(t),
                                sql |-> RelFlag(t) = "true", history |-> HistFlag(t) = "true"]
            /\ ~TableMismatch(t) => \A i \in 1..Len(log) : log[i].url # TrackUrl(t)

\* A podcast has been populated whose first track has R = true and H = false,
\* and came out not Played with a line printed, and whose second track, its
\* key above 2^31, has no row and H = true, and came out Played.
C1_Witness ==
    /\ in_player = "beyondpod"
    /\ PodcastPopulated(1)
    /\ RelFlag(1) = "true" /\ HistFlag(1) = "false"
    /\ TrackAt(1).playing_status # "Played"
    /\ Len(log) = 1
    /\ RelFlag(2) = "absent" /\ HistFlag(2) = "true"
    /\ TrackAt(2).playing_status = "Played"

(* C2: after BeyondPod's populate a track's progress is the playedtime of its
   row when the row exists and playedtime >= 0, and 0 otherwise, whatever the
   history holds; its status is Played if the table resolves to played, else
   Playing if the progress is above 0, else Unplayed. *)
C2_ProgressAndStatus ==
    \A t \in 1..3 :
        (in_player = "beyondpod" /\ PodcastPopulated(FeedOf(t))) =>
            /\ TrackAt(t).progress =
                  IF cfg.a.tracks[t].db = "row" /\ cfg.a.tracks[t].playedtime >= 0
                  THEN cfg.a.tracks[t].playedtime ELSE 0
            /\ TrackAt(t).playing_status =
                  IF TablePlayed(t) THEN "Played"
                  ELSE IF TrackAt(t).progress > 0 THEN "Playing" ELSE "Unplayed"

\* Both podcasts have been populated: a row with a negative playedtime gave
\* progress 0, and an unplayed row with playedtime 1 gave Playing at 1.
C2_Witness ==
    /\ in_player = "beyondpod"
    /\ PodcastPopulated(2)
    /\ cfg.a.tracks[1].db = "row" /\ cfg.a.tracks[1].playedtime = -1
    /\ cfg.a.tracks[1].h = 65
    /\ TrackAt(1).progress = 0
    /\ cfg.a.tracks[3].db = "row"
    /\ TrackAt(3) = [NewTrack(3) EXCEPT !.progress = 1, !.playing_status = "Playing"]

\* BeyondPod's save has returned Ok.
BeyondPodSaved == files.beyondpod.finished

\* The bytes of the output archive's member called name.
SavedMember(name) ==
    (CHOOSE i \in 1..Len(files.beyondpod.entries) : files.beyondpod.entries[i].name = name)

SavedData(name) == files.beyondpod.entries[SavedMember(name)].data

\* played and inDb of track t at the save.
IsPlayed(t) == TrackAt(t).playing_status = "Played"

InDb(t) == cfg.a.tracks[t].db = "row"

\* The rows of the tracks table the save is to leave.
RowsAfterSave ==
    [k \in DOMAIN InputStore(cfg.a).tracks |->
        IF k = StaleRowKey THEN InputStore(cfg.a).tracks[k]
        ELSE LET t == CHOOSE t \in 1..3 : RowKey(t) = k
             IN  [played |-> IsPlayed(t), playedtime |-> TrackAt(t).progress]]

\* The tracks of podcast p that get a history entry, in the podcast's order,
\* and the tokens of the podcast's group.
Qualifying(p) ==
    SelectSeq(IF p = 1 THEN <<1, 2>> ELSE <<3>>, LAMBDA t : IsPlayed(t) \/ InDb(t))

GroupAfterSave(p) ==
    InputToken(FeedText(p), Len(Qualifying(p)))
        \o Concat([i \in 1..Len(Qualifying(p)) |->
                     InputToken(KeyText(Qualifying(p)[i]),
                                IF IsPlayed(Qualifying(p)[i]) THEN 65 ELSE 64)])

\* s occurs in bytes as a run of consecutive elements.
Occurs(s, bytes) ==
    \E i \in 0..(Len(bytes) - Len(s)) : SubSeq(bytes, i + 1, i + Len(s)) = s

(* C3: after BeyondPod's save, the tracks table has the rows it had, no more
   and no fewer; the row of each track that has one holds (played, playedtime
   = progress) of the track and every other row is as it was; the history
   holds, for each podcast with a track that is played or has a row, a group
   of exactly those tracks in the podcast's order, flagged 65 when played and
   64 otherwise. *)
C3_SavePolicy ==
    BeyondPodSaved =>
        /\ SavedData(DB_FILE)[1].tracks = RowsAfterSave
        /\ \A p \in 1..2 :
              Qualifying(p) # <<>> => Occurs(GroupAfterSave(p), SavedData(HISTORY_FILE))

\* A save has returned after a podcast with a track that has a row and is not
\* played, and a track without a row that is played, and a podcast whose only
\* track has neither.
C3_Witness ==
    /\ BeyondPodSaved
    /\ InDb(1) /\ ~IsPlayed(1) /\ TrackAt(1).progress = 1
    /\ ~InDb(2) /\ IsPlayed(2)
    /\ ~InDb(3) /\ ~IsPlayed(3)
    /\ SavedData(DB_FILE)[1].tracks[RowKey(1)] = [played |-> FALSE, playedtime |-> 1]
    /\ SavedData(DB_FILE)[1].tracks[StaleRowKey] = [played |-> FALSE, playedtime |-> 0]
    /\ SavedData(HISTORY_FILE) =
          InputToken(FeedText(1), 2) \o InputToken(KeyText(1), 64) \o InputToken(KeyText(2), 65)

(* C4: the history BeyondPod's save writes is the groups of the podcasts passed
   to it that have a qualifying track, in the order passed, and nothing else:
   a podcast without a qualifying track and a feed that was not passed have no
   group in it, whatever the input history held for them. *)
C4_HistoryRebuilt ==
    BeyondPodSaved =>
        /\ SavedData(HISTORY_FILE) =
              (IF Qualifying(1) # <<>> THEN GroupAfterSave(1) ELSE <<>>)
                  \o (IF Qualifying(2) # <<>> THEN GroupAfterSave(2) ELSE <<>>)
        /\ ~Occurs(FeedText(3), SavedData(HISTORY_FILE))
        /\ \A p \in 1..2 : Qualifying(p) = <<>> => ~Occurs(FeedText(p), SavedData(HISTORY_FILE))

\* A save has returned whose input history held a group of a feed that was not
\* passed and a group of a podcast that has no qualifying track now, next to a
\* podcast that has one.
C4_Witness ==
    /\ BeyondPodSaved
    /\ cfg.a.stale
    /\ Occurs(FeedText(3), InputHistory(cfg.a))
    /\ cfg.a.tracks[3].h = 64
    /\ Occurs(FeedText(2), InputHistory(cfg.a))
    /\ Qualifying(2) = <<>>
    /\ Qualifying(1) = <<1, 2>>
    /\ ~Occurs(FeedText(2), SavedData(HISTORY_FILE))

(* C5: after a successful BeyondPod save, the output archive has the members
   of the input archive under the same names in the same order; the history
   member holds the history just built, the store member the store as the
   save left it, and every other member the bytes it had in the input. *)
C5_ArchivePassthrough ==
    BeyondPodSaved =>
        /\ Len(files.beyondpod.entries) = Len(InputArchive(cfg.a))
        /\ \A i \in 1..Len(InputArchive(cfg.a)) :
              /\ files.beyondpod.entries[i].name = InputArchive(cfg.a)[i].name
              /\ files.beyondpod.entries[i].complete
              /\ files.beyondpod.entries[i].data =
                    IF InputArchive(cfg.a)[i].name = HISTORY_FILE
                    THEN (IF Qualifying(1) # <<>> THEN GroupAfterSave(1) ELSE <<>>)
                             \o (IF Qualifying(2) # <<>> THEN GroupAfterSave(2) ELSE <<>>)
                    ELSE IF InputArchive(cfg.a)[i].name = DB_FILE
                    THEN << [InputStore(cfg.a) EXCEPT !.tracks = RowsAfterSave] >>
                    ELSE InputArchive(cfg.a)[i].data

\* A save has returned that changed the store and the history: cover.png is
\* the second member of the output as of the input, with the input's bytes.
C5_Witness ==
    /\ BeyondPodSaved
    /\ SavedData(DB_FILE) # << InputStore(cfg.a) >>
    /\ SavedData(HISTORY_FILE) # InputHistory(cfg.a)
    /\ files.beyondpod.entries[2] =
          [name |-> "cover.png", data |-> InputArchive(cfg.a)[2].data, complete |-> TRUE]
    /\ files.beyondpod.entries[Len(InputArchive(cfg.a))].name = DB_FILE

(* C7: save is all-or-nothing for both backends: when it returns an error,
   nothing has been written to the sink; when it returns Ok, the sink holds
   the whole output. *)
C7_AllOrNothing ==
    /\ (mpc.at = "failed" /\ mpc.stage = "save") =>
          IF outputs[mpc.i] = "beyondpod" THEN files.beyondpod = EmptySink
          ELSE files.pocketcasts = EmptyFile
    /\ mpc.at = "done" =>
          \A i \in 1..Len(outputs) :
              IF outputs[i] = "beyondpod"
              THEN /\ files.beyondpod.finished
                   /\ \A j \in 1..Len(files.beyondpod.entries) :
                         files.beyondpod.entries[j].complete
              ELSE files.pocketcasts.complete

\* The status and the modification of track t's episode in PocketCasts' file.
EpisodeIn(t) == cfg.b.episodes[t]

BadStatus(t) == EpisodeIn(t).db = "row" /\ EpisodeIn(t).playing_status \notin {0, 1, 2}

\* The first track of podcast p whose episode stops the populate call.
Stops(t) == BadStatus(t) \/ EpisodeIn(t).db = "broken"

FirstStop(p) == IF p = 2 THEN 3 ELSE IF Stops(1) THEN 1 ELSE 2

PodcastFound(p) == p = 1 \/ cfg.b.pod2

(* C8: in PocketCasts' populate, a track whose episode row is found gets
   Unplayed, Playing or Played for the codes 0, 1 and 2; any other code makes
   the call fail with InvalidPlayingStatus and no podcast is returned; a track
   without an episode row does not fail the call and stays as it was. *)
C8_StatusDecode ==
    /\ \A t \in 1..3 :
          (in_player = "pocketcasts" /\ PodcastPopulated(FeedOf(t))) =>
              /\ EpisodeIn(t).db = "row" =>
                    /\ EpisodeIn(t).playing_status \in {0, 1, 2}
                    /\ TrackAt(t).playing_status =
                          IF EpisodeIn(t).playing_status = 0 THEN "Unplayed"
                          ELSE IF EpisodeIn(t).playing_status = 1 THEN "Playing" ELSE "Played"
              /\ EpisodeIn(t).db = "norow" => TrackAt(t) = NewTrack(t)
    /\ (in_player = "pocketcasts" /\ mpc.at = "failed" /\ mpc.stage = "populate") =>
          /\ pods[mpc.i] = OpmlPodcasts[mpc.i]
          /\ PodcastFound(mpc.i) => Stops(FirstStop(mpc.i))
          /\ mpc.err = "InvalidPlayingStatus" <=>
                (PodcastFound(mpc.i) /\ BadStatus(FirstStop(mpc.i)))

\* The populate of the first podcast has failed with InvalidPlayingStatus on
\* its second track's code 3, after a first track with code 1.
C8_Witness ==
    /\ in_player = "pocketcasts"
    /\ mpc = [at |-> "failed", stage |-> "populate", i |-> 1, err |-> "InvalidPlayingStatus"]
    /\ EpisodeIn(1) = BEpisode("row", 1, 79)
    /\ EpisodeIn(2) = BEpisode("row", 3, 0)
    /\ pods = OpmlPodcasts

\* The code of a status.
StatusCode(status) == IF status = "Unplayed" THEN 0 ELSE IF status = "Playing" THEN 1 ELSE 2

\* What a save at time now is to make of the episodes table before.
EpisodeAfterSave(before, after, t, now) ==
    /\ IF before.played_up_to # TrackAt(t).progress * 10
       THEN after.played_up_to = TrackAt(t).progress * 10 /\ after.played_up_to_modified = now
       ELSE /\ after.played_up_to = before.played_up_to
            /\ after.played_up_to_modified = before.played_up_to_modified
    /\ IF before.playing_status # StatusCode(TrackAt(t).playing_status)
       THEN /\ after.playing_status = StatusCode(TrackAt(t).playing_status)
            /\ after.playing_status_modified = now
       ELSE /\ after.playing_status = before.playing_status
            /\ after.playing_status_modified = before.playing_status_modified

(* C9: in PocketCasts' save, for every track with an episode row and each of
   played_up_to and playing_status (Unplayed, Playing, Played as 0, 1, 2), the
   field and its _modified stamp are written exactly when the new value
   differs from the stored one, and are both left as they were otherwise;
   every stamp written in the call is the time read at its start. *)
C9_WriteIfChanged ==
    [][ (mpc.at = "save" /\ outputs[mpc.i] = "pocketcasts" /\ files'.pocketcasts.complete) =>
            /\ DOMAIN files'.pocketcasts.data[1].episodes = DOMAIN pk.db.episodes
            /\ \A t \in 1..3 :
                  EpisodeKey(t) \in DOMAIN pk.db.episodes =>
                      EpisodeAfterSave(pk.db.episodes[EpisodeKey(t)],
                                       files'.pocketcasts.data[1].episodes[EpisodeKey(t)],
                                       t, clock)
            /\ files'.pocketcasts.data[1].episodes[StaleEpisodeKey]
                  = pk.db.episodes[StaleEpisodeKey] ]_vars

\* A save has written the status of the first episode and left its position,
\* and written the position of the third and left its status: the two stamps
\* written are the same.
C9_Witness ==
    /\ files.pocketcasts.complete
    /\ EpisodeIn(1) = BEpisode("row", 1, 10)
    /\ TrackAt(1).progress = 1 /\ TrackAt(1).playing_status = "Played"
    /\ LET ep == files.pocketcasts.data[1].episodes
       IN  /\ ep[EpisodeKey(1)].playing_status = 2
           /\ ep[EpisodeKey(1)].played_up_to_modified = 5
           /\ ep[EpisodeKey(1)].playing_status_modified # 5
           /\ ep[EpisodeKey(3)].played_up_to = 10
           /\ ep[EpisodeKey(3)].playing_status_modified = 5
           /\ ep[EpisodeKey(3)].played_up_to_modified = ep[EpisodeKey(1)].playing_status_modified

----------------------------------------------------------------------------
(* C10: for every 128-bit value v, UUID::to_string gives 36 characters, all
   lower-case hex digits except hyphens at offsets 8, 13, 18 and 23, and
   UUID::from_str of that string succeeds and returns v. *)
IsLowerHex(c) == (c >= 48 /\ c <= 57) \/ (c >= 97 /\ c <= 102)

C10_RoundTrip ==
    /\ uuid.pc \in {"encoded", "decoded"} =>
          /\ Len(uuid.s) = 36
          /\ \A i \in 1..Len(uuid.s) :
                IF i \in {9, 14, 19, 24} THEN uuid.s[i] = 45 ELSE IsLowerHex(uuid.s[i])
    /\ uuid.pc = "decoded" => uuid.r = [ok |-> TRUE, v |-> uuid.v]

\* A value with leading zeros in a field and letters among its digits has been
\* encoded and decoded.
C10_Witness ==
    /\ uuid.pc = "decoded"
    /\ uuid.v[1] = 0 /\ uuid.v[9] = 15 /\ uuid.v[24] = 1 /\ uuid.v[25] # 0
    /\ uuid.r.ok

----------------------------------------------------------------------------
(* C6: for every feed id and every non-empty list of entries with distinct
   u32 track keys, those of 2^31 and more included, looking the feed up in the
   stream that write_feed_history wrote returns exactly the mapping from each
   entry's key to its flags, also when groups of other feeds precede it. *)
C6_HistoryRoundTrip ==
    codec.pc = "read" =>
        /\ codec.r.ok
        /\ DOMAIN codec.r.v = {codec.entries[i][1] : i \in 1..Len(codec.entries)}
        /\ \A i \in 1..Len(codec.entries) :
              codec.r.v[codec.entries[i][1]] = codec.entries[i][2]

\* A group holding a key of 2^31 or more and a key below it has been read back
\* from behind two groups of other feeds.
C6_Witness ==
    /\ codec.pc = "read"
    /\ Len(codec.prefix) = 2
    /\ Len(codec.entries) = 2
    /\ codec.entries[1][1] = <<32768, 0>>
    /\ codec.entries[2][1] = <<0, 97>>
    /\ codec.r.ok
    /\ DOMAIN codec.r.v = {<<32768, 0>>, <<0, 97>>}

----------------------------------------------------------------------------
\* A hex digit, of either case.
IsHexDigit(c) == IsLowerHex(c) \/ (c >= 65 /\ c <= 70)

\* 36 characters: hyphens at offsets 8, 13, 18 and 23, hex digits elsewhere.
WellFormed(s) ==
    /\ Len(s) = 36
    /\ \A i \in 1..Len(s) : IF i \in {9, 14, 19, 24} THEN s[i] = 45 ELSE IsHexDigit(s[i])

(* C11: UUID::from_str accepts a text only if it is 36 characters with hyphens
   at offsets 8, 13, 18 and 23 and hex digits elsewhere, and fails with
   InvalidUUID, and with nothing else, on every other text. *)
C11_DecodeRejects ==
    uuid.pc = "parsed" =>
        IF WellFormed(uuid.s) THEN uuid.r.ok
        ELSE uuid.r = [ok |-> FALSE, err |-> "InvalidUUID"]

----------------------------------------------------------------------------
\* The calls made on player p, in order.
CallsOn(p) == SelectSeq(calls, LAMBDA c : c.on = p)

\* The calls a save makes on the store.
StoreOps == {"update", "close", "close failed", "read"}

\* The life of one instance: created first and once; saved at most once;
\* nothing but the save's own calls on the store after the save; in a save the
\* updates, then the closing of the store, then the reading of its bytes; a
\* failed closing is the last call.
LifeOf(cs) ==
    /\ cs # <<>> => cs[1].op = "new"
    /\ \A i, j \in 1..Len(cs) :
          i < j =>
              /\ cs[j].op # "new"
              /\ cs[i].op = "save" => cs[j].op \in StoreOps
              /\ cs[i].op \in {"close", "read"} => cs[j].op = "read"
              /\ cs[i].op # "close failed"
    /\ \A j \in 1..Len(cs) :
          /\ cs[j].op \in StoreOps => \E i \in 1..(j - 1) : cs[i].op = "save"
          /\ cs[j].op = "read" => \E i \in 1..(j - 1) : cs[i].op = "close"

(* C12: every player instance goes Created, populated any number of times,
   Saved: save is called on it at most once and nothing is called on it
   afterwards; every populate is on the source player and comes before every
   save; in a save all updates of the store come before its closing, which
   comes before the reading of its bytes, and a closing that fails ends the
   save and the run. *)
C12_Lifecycle ==
    /\ LifeOf(CallsOn("beyondpod"))
    /\ LifeOf(CallsOn("pocketcasts"))
    /\ \A i, j \in 1..Len(calls) :
          (i < j /\ calls[i].op = "save") => calls[j].op # "populate"
    /\ \A i \in 1..Len(calls) :
          /\ calls[i].op = "populate" => calls[i].on = in_player
          /\ calls[i].op = "close failed" => (i = Len(calls) /\ mpc.at = "failed")
    /\ bp.state = "saved" <=> \E i \in 1..Len(calls) : calls[i] = [op |-> "save", on |-> "beyondpod"]
    /\ pk.state = "saved" <=>
          \E i \in 1..Len(calls) : calls[i] = [op |-> "save", on |-> "pocketcasts"]

\* A run has ended after two populates on PocketCasts and a save of either
\* player, each with updates, the closing and the reading of its store.
C12_Witness ==
    /\ mpc.at = "done"
    /\ in_player = "pocketcasts"
    /\ Len(CallsOn("beyondpod")) >= 5
    /\ [i \in 1..3 |-> CallsOn("pocketcasts")[i].op] = <<"new", "populate", "populate">>
    /\ [i \in 1..4 |-> CallsOn("beyondpod")[i].op] = <<"new", "save", "update", "update">>
    /\ CallsOn("beyondpod")[Len(CallsOn("beyondpod")) - 1].op = "close"
    /\ calls[Len(calls) - 1] = [op |-> "close", on |-> "pocketcasts"]
    /\ calls[Len(calls)] = [op |-> "read", on |-> "pocketcasts"]
    /\ bp.state = "saved" /\ pk.state = "saved"

----------------------------------------------------------------------------
\* The track query of BeyondPod fails on a track of podcast p, and its feed is
\* in the feeds table.
QueryFails(p) == \E t \in 1..3 : FeedOf(t) = p /\ cfg.a.tracks[t].db = "broken"

FeedFound(p) == p = 1 \/ cfg.a.feed2

(* C13: BeyondPod's populate and save go on when the track query returns no
   rows, and fail when it fails in any other way or when the feed is not
   found: no populate returns a podcast, and no save returns Ok, with a track
   whose query failed. *)
C13_OnlyZeroRowsTolerated ==
    /\ \A p \in 1..2 :
          (in_player = "beyondpod" /\ PodcastPopulated(p)) => (FeedFound(p) /\ ~QueryFails(p))
    /\ BeyondPodSaved => \A p \in 1..2 : FeedFound(p) /\ ~QueryFails(p)
    /\ (in_player = "beyondpod" /\ mpc.at = "failed" /\ mpc.stage = "populate") =>
          (~FeedFound(mpc.i) \/ QueryFails(mpc.i))

====
